---------------------------- MODULE Spec2Model ----------------------------
(***************************************************************************)
(* A model of cl (src/main1.go): run one command on every host of a        *)
(* cluster over ssh, one goroutine per host, trying the keys of certs/ in  *)
(* turn, and rewrite the hosts file without the hosts that succeeded.      *)
(*                                                                         *)
(* Text is modelled at the byte level: a Go string or []byte is a sequence *)
(* of one-character strings, so that strings.Replace, strings.Split and    *)
(* the file writes act on bytes as the code does.                          *)
(***************************************************************************)
EXTENDS Integers, Sequences, FiniteSets, TLC

(***************************************************************************)
(* Bounds of the model.                                                    *)
(***************************************************************************)
\* The largest number of entries of certs/ (readCerts returns 0..MaxCerts names).
MaxCerts == 2

(***************************************************************************)
(* Bytes and strings.                                                      *)
(***************************************************************************)
NL == "\n"
SP == " "

\* The process environment read by unmarshal: $USER and $HOME.
EnvUSER == <<"u">>
EnvHOME == <<"/", "r">>

\* strings.HasPrefix(s[i-1:], sub), with i a 1-based position of s.
HasPrefixAt(s, i, sub) ==
    /\ i + Len(sub) - 1 <= Len(s)
    /\ \A k \in 1..Len(sub) : s[i + k - 1] = sub[k]

\* strings.Index(s, sub) + 1: the 1-based position of the first occurrence, 0 if none.
Index(s, sub) ==
    IF \E i \in 1..(Len(s) + 1) : HasPrefixAt(s, i, sub)
    THEN CHOOSE i \in 1..(Len(s) + 1) :
            /\ HasPrefixAt(s, i, sub)
            /\ \A j \in 1..(i - 1) : ~HasPrefixAt(s, j, sub)
    ELSE 0

\* strings.LastIndexByte(s, c) + 1.
LastIndexByte(s, c) ==
    IF \E i \in 1..Len(s) : s[i] = c
    THEN CHOOSE i \in 1..Len(s) : s[i] = c /\ \A j \in (i + 1)..Len(s) : s[j] # c
    ELSE 0

\* strings.Contains(s, sub).
Contains(s, sub) == Index(s, sub) # 0

\* strings.Replace(s, old, new, n) for a non-empty old: the first n
\* non-overlapping occurrences, leftmost first; n < 0 replaces them all.
\* (The rest of s after an occurrence is bound as a value, rest, before the
\* replacement goes on in it.)
RECURSIVE Replace(_, _, _, _)
Replace(s, old, new, n) ==
    LET i == Index(s, old) IN
    IF n = 0 \/ old = <<>> \/ i = 0
    THEN s
    ELSE SubSeq(s, 1, i - 1) \o new
         \o (CHOOSE r \in {Replace(rest, old, new, IF n < 0 THEN n ELSE n - 1) :
                              rest \in {SubSeq(s, i + Len(old), Len(s))}} : TRUE)

\* strings.Split(s, sep) for a non-empty sep.
RECURSIVE Split(_, _)
Split(s, sep) ==
    LET i == Index(s, sep) IN
    IF i = 0
    THEN <<s>>
    ELSE <<SubSeq(s, 1, i - 1)>> \o Split(SubSeq(s, i + Len(sep), Len(s)), sep)

\* unicode.IsSpace on the bytes of the model.
IsSpace(c) == c \in {" ", "\n", "\t", "\r"}

\* strings.TrimSpace(s).
RECURSIVE TrimLeft(_)
TrimLeft(s) ==
    IF s # <<>> /\ IsSpace(Head(s)) THEN TrimLeft(Tail(s)) ELSE s

RECURSIVE TrimRight(_)
TrimRight(s) ==
    IF s # <<>> /\ IsSpace(s[Len(s)]) THEN TrimRight(SubSeq(s, 1, Len(s) - 1)) ELSE s

TrimSpace(s) == TrimLeft(TrimRight(s))

\* The lines bufio.Scanner (ScanLines) and bufio.Reader.ReadLine yield for a
\* text: split at "\n", a trailing "\r" dropped, a last line without "\n"
\* yielded when it is not empty.  (Lines longer than the reader's buffer are
\* outside the model.)
DropCR(l) == IF l # <<>> /\ l[Len(l)] = "\r" THEN SubSeq(l, 1, Len(l) - 1) ELSE l

RECURSIVE ScanLines(_)
ScanLines(text) ==
    LET i == Index(text, <<NL>>) IN
    IF text = <<>> THEN <<>>
    ELSE IF i = 0 THEN <<DropCR(text)>>
    ELSE <<DropCR(SubSeq(text, 1, i - 1))>> \o ScanLines(SubSeq(text, i + 1, Len(text)))

\* main, lines 172-182: saveHosts is every line ReadLine yields, each
\* followed by "\n".
RECURSIVE JoinLines(_)
JoinLines(ls) ==
    IF ls = <<>> THEN <<>> ELSE Head(ls) \o <<NL>> \o JoinLines(Tail(ls))

ReadSaveHosts(text) == JoinLines(ScanLines(text))


(***************************************************************************)
(* unmarshal: the hosts file as a map from cluster name to host records.   *)
(***************************************************************************)
\* net.SplitHostPort(line) for addresses without brackets: <<host, port>>,
\* and <<"", "">> on error (no colon, or a colon in the host part).
SplitHostPort(hostport) ==
    LET i == LastIndexByte(hostport, ":") IN
    IF i = 0 THEN <<<<>>, <<>>>>
    ELSE IF Contains(SubSeq(hostport, 1, i - 1), <<":">>) THEN <<<<>>, <<>>>>
    ELSE <<SubSeq(hostport, 1, i - 1), SubSeq(hostport, i + 1, Len(hostport))>>

\* net.JoinHostPort(host, port).
JoinHostPort(host, port) ==
    IF Contains(host, <<":">>)
    THEN <<"[">> \o host \o <<"]", ":">> \o port
    ELSE host \o <<":">> \o port

\* filepath.Join(os.Getenv("HOME"), ".ssh", "id_rsa"), line 59.
DefaultIdentity ==
    EnvHOME \o <<"/", ".", "s", "s", "h", "/", "i", "d", "_", "r", "s", "a">>

\* Lines 66-76: the identity of a host line, and the line without it.
\* h.identity[0] of an empty parts[1] (two spaces in a row) panics.
IdentityPanics(line) ==
    Contains(line, <<SP>>) /\ Split(line, <<SP>>)[2] = <<>>

LineIdentity(line) ==
    IF Contains(line, <<SP>>)
    THEN LET id == Split(line, <<SP>>)[2] IN
         IF id[1] = "~" THEN Replace(id, <<"~">>, EnvHOME, 1) ELSE id
    ELSE DefaultIdentity

LineAddrSpec(line) ==
    IF Contains(line, <<SP>>) THEN Split(line, <<SP>>)[1] ELSE line

\* Lines 78-83: the user of an address spec, and the spec without it.
SpecUser(spec) ==
    IF Contains(spec, <<"@">>) THEN Split(spec, <<"@">>)[1] ELSE EnvUSER

SpecHostPort(spec) ==
    IF Contains(spec, <<"@">>) THEN Split(spec, <<"@">>)[2] ELSE spec

\* Lines 85-95: h.addr.
HostAddr(hostport) ==
    LET hp   == SplitHostPort(hostport)
        host == IF hp[1] = <<>> THEN hostport ELSE hp[1]
        port == IF hp[2] = <<>> THEN <<"2", "2">> ELSE hp[2]
    IN JoinHostPort(host, port)

\* Lines 57-95: the host record of a (trimmed, non-empty, non-header) line.
ParseHost(line) ==
    [user     |-> SpecUser(LineAddrSpec(line)),
     addr     |-> HostAddr(SpecHostPort(LineAddrSpec(line))),
     identity |-> LineIdentity(line)]

\* line[end] == ':' of a trimmed non-empty line.
IsHeader(line) == line # <<>> /\ line[Len(line)] = ":"

\* m[curr] = append(m[curr], h) on a map modelled as a function.
MapAppend(m, curr, h) ==
    [n \in (DOMAIN m) \cup {curr} |->
        IF n = curr
        THEN (IF curr \in DOMAIN m THEN m[curr] ELSE <<>>) \o <<h>>
        ELSE m[n]]

\* The scan loop of unmarshal over the lines still to read: st is
\* [m, curr, panic].
RECURSIVE UnmarshalLines(_, _)
UnmarshalLines(ls, st) ==
    IF ls = <<>> \/ st.panic THEN st
    ELSE LET line == TrimSpace(Head(ls)) IN
         IF line = <<>> THEN UnmarshalLines(Tail(ls), st)
         ELSE IF IsHeader(line)
         THEN UnmarshalLines(Tail(ls),
                  [st EXCEPT !.curr = SubSeq(line, 1, Len(line) - 1)])
         ELSE IF IdentityPanics(line)
         THEN [st EXCEPT !.panic = TRUE]
         ELSE UnmarshalLines(Tail(ls),
                  [st EXCEPT !.m = MapAppend(st.m, st.curr, ParseHost(line))])

\* unmarshal(r), lines 37-101.
unmarshal(text) ==
    UnmarshalLines(ScanLines(text), [m |-> << >>, curr |-> <<>>, panic |-> FALSE])

(***************************************************************************)
(* The inputs of a run: the hosts file, os.Args[1] and the entries of      *)
(* certs/.  The model starts at line 170 of main, after the argument check *)
(* and os.Open("hosts") have succeeded.                                    *)
(***************************************************************************)
\* The spellings of a host line the inventory grammar allows:
\* [user@]host[:port] [credentialPath], the path possibly starting with ~.
HostLine(user, host, port, cred) == user \o host \o port \o cred

UserSpellings == {<<>>, <<"a", "@">>}
PortSpellings == {<<>>, <<":", "2", "2">>}
CredSpellings == {<<>>, <<" ", "/", "k">>, <<" ", "~", "/", "k">>}

Spellings ==
    {HostLine(u, <<"h">>, p, c) :
        u \in UserSpellings, p \in PortSpellings, c \in CredSpellings}

\* One cluster w with one host, in every spelling.
SingleHostInventories == {<<"w", ":", "\n">> \o l \o <<NL>> : l \in Spellings}

\* Two hosts in cluster w; a line of cluster d that starts with the text of
\* w's host line; the same line in w and in d; a host line before any
\* header; a header without host lines; a line with two spaces in a row.
TwoHostInventory   == <<"w", ":", "\n", "a", "@", "h", ":", "2", "2", " ", "/", "k", "\n", "b", "@", "g", "g", ":", "2", "2", " ", "/", "k", "\n">>
PrefixInventory    == <<"w", ":", "\n", "a", "@", "h", ":", "2", "2", " ", "/", "k", "\n", "d", ":", "\n", "a", "@", "h", ":", "2", "2", " ", "/", "k", "2", "\n">>
TwinInventory      == <<"w", ":", "\n", "a", "@", "h", ":", "2", "2", " ", "/", "k", "\n", "d", ":", "\n", "a", "@", "h", ":", "2", "2", " ", "/", "k", "\n">>
UnnamedInventory   == <<"a", "@", "h", ":", "2", "2", " ", "/", "k", "\n">>
HeaderOnlyInventory == <<"w", ":", "\n">>
PanicInventory     == <<"w", ":", "\n", "a", "@", "h", " ", " ", "/", "k", "\n">>

Inventories ==
    SingleHostInventories \cup
    {TwoHostInventory, PrefixInventory, TwinInventory, UnnamedInventory,
     HeaderOnlyInventory, PanicInventory}

\* os.Args[1]: a cluster of the inventories, a name that is in none, the
\* empty name.
ClusterArgs == {<<"w">>, <<"x">>, <<>>}

\* c.Err() once cancel() has been called.
ctxErr == <<"c", "o", "n", "t", "e", "x", "t", " ", "c", "a", "n", "c", "e", "l", "e", "d">>

\* os.Args[0].
argv0 == <<"c", "l">>

Digit(i) == <<"0", "1", "2", "3", "4", "5", "6", "7", "8", "9">>[i + 1]

\* The i-th entry of certs/ in ReadDir order.
CertName(i) == <<"k", Digit(i)>>

\* readCerts(), lines 315-328: the names of the n entries of certs/ (nil
\* when the directory cannot be read, which is the case n = 0).
readCerts(n) == [i \in 1..n |-> CertName(i)]

\* codes, lines 25-28.
SIGINT == "SIGINT"
SIGKILL == "SIGKILL"
codes == [s \in {SIGINT, SIGKILL} |-> IF s = SIGINT THEN 130 ELSE 137]

\* What the remote side does in one attempt (the environment decides it
\* when the attempt returns): the attempt fails before the
\* command has run (key unreadable, dial, authentication, session, i/o),
\* the command runs and exits non-zero, or it runs and exits zero.
RemoteResponses ==
    {[kind |-> "err",  out |-> <<>>],
     [kind |-> "exit", out |-> <<"x">>],
     [kind |-> "ok",   out |-> <<"o", "\n">>]}

\* The error value of the attempt of task h with credential i.
ErrOf(h, i) == <<"e", Digit(h), Digit(i)>>
NoErr == <<>>

\* run(h, cmd, cert), lines 103-150: every failure returns an error; an
\* *ssh.ExitError of CombinedOutput is dropped and the output returned.
run(h, i, resp) ==
    IF resp.kind = "err"
    THEN [b |-> <<>>, err |-> ErrOf(h, i)]
    ELSE [b |-> resp.out, err |-> NoErr]

(***************************************************************************)
(* The state of a run.                                                     *)
(***************************************************************************)
VARIABLES
    inventory,   \* the text of the hosts file when the run started (history)
    arg,         \* os.Args[1]
    certs,       \* certs, line 170
    hostsFile,   \* the bytes of the file hosts
    succFile,    \* the bytes of the file succ.txt
    stdout,      \* the bytes written to os.Stdout
    stderr,      \* the bytes written to os.Stderr
    saveHosts,   \* saveHosts, line 169: shared by the host goroutines
    hosts,       \* hosts, line 187: the records of the requested cluster
    mainpc,      \* where main is
    code,        \* code, line 238: shared with the signal goroutine
    exitCode,    \* the status the process has exited with, NoExit before
    tpc,         \* where each host goroutine is
    tcert,       \* each host goroutine's position in certs
    tlocal,      \* each host goroutine's result of strings.Replace, not yet stored
    tb,          \* each host goroutine's b
    terr,        \* each host goroutine's err
    tried,       \* each host goroutine's attempts so far (history)
    closerpc,    \* where the goroutine of lines 246-251 is
    errsClosed,  \* close(errs) has been called
    outClosed,   \* close(out) has been called
    sigpc,       \* where the goroutine of lines 240-244 is
    cancelled,   \* cancel() has been called: c.Done() is closed
    received     \* the messages main has received on errs and out (history)

inputVars == <<inventory, arg, certs>>
fileVars  == <<hostsFile, succFile>>
ioVars    == <<stdout, stderr>>
mainVars  == <<mainpc, exitCode, received>>
taskVars  == <<tpc, tcert, tlocal, tb, terr, tried>>
closeVars == <<closerpc, errsClosed, outClosed>>
sigVars   == <<sigpc, cancelled>>

vars == <<inputVars, fileVars, ioVars, mainVars, taskVars, closeVars, sigVars,
          saveHosts, hosts, code>>

NoExit == -1

Tasks == DOMAIN tpc

Init ==
    /\ inventory \in Inventories
    /\ arg \in ClusterArgs
    /\ \E n \in 0..MaxCerts : certs = readCerts(n)
    /\ hostsFile = inventory
    /\ succFile = <<>>
    /\ stdout = <<>>
    /\ stderr = <<>>
    /\ saveHosts = <<>>
    /\ hosts = <<>>
    /\ mainpc = "start"
    /\ code = 0
    /\ exitCode = NoExit
    /\ tpc = <<>>
    /\ tcert = <<>>
    /\ tlocal = <<>>
    /\ tb = <<>>
    /\ terr = <<>>
    /\ tried = <<>>
    /\ closerpc = "none"
    /\ errsClosed = FALSE
    /\ outClosed = FALSE
    /\ sigpc = "none"
    /\ cancelled = FALSE
    /\ received = <<>>

(***************************************************************************)
(* main up to the aggregation loop, lines 170-251.                         *)
(***************************************************************************)
\* The lookup without its ok: a missing cluster reads as one without hosts.
ClusterLookupIgnoringOk(m, name) ==
    [hosts |-> IF name \in DOMAIN m THEN m[name] ELSE <<>>,
     ok    |-> TRUE]

\* hosts, ok := cluster[os.Args[1]], line 187.
ClusterLookup(m, name) ==
    [hosts |-> IF name \in DOMAIN m THEN m[name] ELSE <<>>,
     ok    |-> name \in DOMAIN m]

\* cluster := unmarshal(f), line 185, for every text the hosts file can hold
\* when a run starts: the parse is computed once for each, and main looks
\* up the parse of the file as it is.
Parsed == [t \in Inventories |-> unmarshal(t)]

\* saveHosts after the loop of lines 172-182, likewise for every text the
\* hosts file can hold when a run starts.
SavedHosts == [t \in Inventories |-> ReadSaveHosts(t)]

\* unmarshal panics on a line with an empty identity: the runtime prints
\* the panic and the process exits with status 2.
StartPanic ==
    /\ mainpc = "start"
    /\ Parsed[hostsFile].panic
    /\ saveHosts' = SavedHosts[hostsFile]
    /\ stderr' = stderr \o <<"p", "a", "n", "i", "c", ":", " ", "r", "u", "n", "t", "i", "m", "e", " ", "e", "r", "r", "o", "r", ":", " ", "i", "n", "d", "e", "x", " ", "o", "u", "t", " ", "o", "f", " ", "r", "a", "n", "g", "e", "\n">>
    /\ mainpc' = "exited"
    /\ exitCode' = 2
    /\ UNCHANGED <<inputVars, fileVars, stdout, received, taskVars,
                   closeVars, sigVars, hosts, code>>

\* Lines 187-192: the requested cluster is not a key of the map.
StartUnknown ==
    /\ mainpc = "start"
    /\ ~Parsed[hostsFile].panic
    /\ ~ClusterLookup(Parsed[hostsFile].m, arg).ok
    /\ saveHosts' = SavedHosts[hostsFile]
    /\ stderr' = stderr \o argv0 \o <<":", " ", "u", "n", "k", "n", "o", "w", "n", " ", "c", "l", "u", "s", "t", "e", "r", "\n">>
    /\ mainpc' = "exited"
    /\ exitCode' = 1
    /\ UNCHANGED <<inputVars, fileVars, stdout, received, taskVars,
                   closeVars, sigVars, hosts, code>>

\* Lines 194-251: one goroutine per host of the cluster, the signal
\* goroutine and the closing goroutine are started; main enters the loop.
StartSpawn ==
    /\ mainpc = "start"
    /\ ~Parsed[hostsFile].panic
    /\ ClusterLookup(Parsed[hostsFile].m, arg).ok
    /\ saveHosts' = SavedHosts[hostsFile]
    /\ hosts' = ClusterLookup(Parsed[hostsFile].m, arg).hosts
    /\ tpc' = [h \in 1..Len(hosts') |-> "loop"]
    /\ tcert' = [h \in 1..Len(hosts') |-> 1]
    /\ tlocal' = [h \in 1..Len(hosts') |-> <<>>]
    /\ tb' = [h \in 1..Len(hosts') |-> <<>>]
    /\ terr' = [h \in 1..Len(hosts') |-> NoErr]
    /\ tried' = [h \in 1..Len(hosts') |-> <<>>]
    /\ sigpc' = "recv"
    /\ closerpc' = "wait"
    /\ mainpc' = "select"
    /\ UNCHANGED <<inputVars, fileVars, ioVars, exitCode, received,
                   errsClosed, outClosed, cancelled, code>>

\* The process is running its goroutines: os.Exit ends them all.
Running == mainpc \notin {"start", "exited"}

(***************************************************************************)
(* The goroutine of one host, lines 202-228.                               *)
(***************************************************************************)
\* outlog, line 211.
outlog(h) ==
    hosts[h].user \o <<"@">> \o hosts[h].addr \o <<SP>> \o hosts[h].identity

\* The audit line of line 223, with the "\n" fmt.Fprintln adds.
AuditLine(h, cert, b) ==
    hosts[h].user \o <<"@">> \o hosts[h].addr \o <<SP>> \o cert \o <<SP>>
    \o Replace(b, <<NL>>, <<>>, -1) \o <<NL>>

\* The message of line 224.
OutMessage(h, b) == <<"H", "o", "s", "t", ":", " ">> \o hosts[h].addr \o <<NL>> \o b

\* A write of s at offset 0 of a file that holds f (a fresh descriptor
\* writes from the start, over whatever the file holds by then).
WriteAt0(f, s) == s \o SubSeq(f, Len(s) + 1, Len(f))

\* Where a goroutine goes after a failed attempt (continue, line 208) and
\* after its success message (break, line 225, and with it the deferred
\* wg.Done() of line 203).
AfterFailure(h) == [pc |-> "loop", cert |-> tcert[h] + 1]
\* The loop without its break: it goes on to the next credential.
AfterSuccessWithoutBreak(h) == [pc |-> "loop", cert |-> tcert[h] + 1]
AfterSuccess(h) == [pc |-> "done", cert |-> tcert[h]]

\* wg.Done() called before the send instead of deferred: a goroutine
\* blocked in its send counts as ended.
FinishedOrSending(h) == tpc[h] \in {"done", "returned", "senderr", "sendout"}

\* The goroutine has ended, by leaving the loop ("done") or by the return
\* of line 218 ("returned"); its deferred wg.Done() has run.
Finished(h) == tpc[h] \in {"done", "returned"}

\* Line 204: the loop takes the next credential and line 205 calls run.
TaskStartAttempt(h) ==
    /\ Running
    /\ tpc[h] = "loop"
    /\ tcert[h] <= Len(certs)
    /\ tpc' = [tpc EXCEPT ![h] = "run"]
    /\ UNCHANGED <<inputVars, fileVars, ioVars, mainVars, tcert, tlocal, tb,
                   terr, tried, closeVars, sigVars, saveHosts, hosts, code>>

\* Lines 205-209: run returns; on an error the goroutine goes to send it.
TaskAttemptReturns(h) ==
    /\ Running
    /\ tpc[h] = "run"
    /\ \E resp \in RemoteResponses :
        LET r == run(h, tcert[h], resp) IN
        /\ tried' = [tried EXCEPT ![h] =
                        Append(@, [cert |-> tcert[h], kind |-> resp.kind])]
        /\ tb' = [tb EXCEPT ![h] = r.b]
        /\ terr' = [terr EXCEPT ![h] = r.err]
        /\ tpc' = [tpc EXCEPT ![h] = IF r.err # NoErr THEN "senderr" ELSE "read1"]
    /\ UNCHANGED <<inputVars, fileVars, ioVars, mainVars, tcert, tlocal,
                   closeVars, sigVars, saveHosts, hosts, code>>

\* Line 212: saveHosts is read and the replacement computed ...
TaskRead1(h) ==
    /\ Running
    /\ tpc[h] = "read1"
    /\ tlocal' = [tlocal EXCEPT ![h] =
                    Replace(saveHosts, outlog(h) \o <<NL>>, <<>>, -1)]
    /\ tpc' = [tpc EXCEPT ![h] = "write1"]
    /\ UNCHANGED <<inputVars, fileVars, ioVars, mainVars, tcert, tb, terr,
                   tried, closeVars, sigVars, saveHosts, hosts, code>>

\* ... and stored, with no synchronisation with the other goroutines: the
\* read and the store are separate steps, and each is taken as atomic.
TaskWrite1(h) ==
    /\ Running
    /\ tpc[h] = "write1"
    /\ saveHosts' = tlocal[h]
    /\ tpc' = [tpc EXCEPT ![h] = "read2"]
    /\ UNCHANGED <<inputVars, fileVars, ioVars, mainVars, tcert, tlocal, tb,
                   terr, tried, closeVars, sigVars, hosts, code>>

\* Line 213, likewise.
TaskRead2(h) ==
    /\ Running
    /\ tpc[h] = "read2"
    /\ tlocal' = [tlocal EXCEPT ![h] = Replace(saveHosts, outlog(h), <<>>, -1)]
    /\ tpc' = [tpc EXCEPT ![h] = "write2"]
    /\ UNCHANGED <<inputVars, fileVars, ioVars, mainVars, tcert, tb, terr,
                   tried, closeVars, sigVars, saveHosts, hosts, code>>

TaskWrite2(h) ==
    /\ Running
    /\ tpc[h] = "write2"
    /\ saveHosts' = tlocal[h]
    /\ tpc' = [tpc EXCEPT ![h] = "open"]
    /\ UNCHANGED <<inputVars, fileVars, ioVars, mainVars, tcert, tlocal, tb,
                   terr, tried, closeVars, sigVars, hosts, code>>

\* Line 215: os.OpenFile with O_TRUNC empties the file.
TaskOpen(h) ==
    /\ Running
    /\ tpc[h] = "open"
    /\ hostsFile' = <<>>
    /\ tpc' = [tpc EXCEPT ![h] = "fprintf"]
    /\ UNCHANGED <<inputVars, succFile, ioVars, mainVars, tcert, tlocal, tb,
                   terr, tried, closeVars, sigVars, saveHosts, hosts, code>>

\* Lines 216-219: os.OpenFile fails; the error is printed and the goroutine
\* returns (and runs the deferred wg.Done()).
TaskOpenFails(h) ==
    /\ Running
    /\ tpc[h] = "open"
    /\ stdout' = stdout \o <<"o", "p", "e", "n", " ", "h", "o", "s", "t", "s", ":", " ", "e", "r", "r", "o", "r", "\n">>
    /\ tpc' = [tpc EXCEPT ![h] = "returned"]
    /\ UNCHANGED <<inputVars, fileVars, stderr, mainVars, tcert, tlocal, tb,
                   terr, tried, closeVars, sigVars, saveHosts, hosts, code>>

\* Lines 220-221: saveHosts, as it is now, is written from the start of
\* the file, and the file closed.  (fmt.Fprintf takes the text as its
\* format: the inventories of the model hold no "%".)
TaskFprintf(h) ==
    /\ Running
    /\ tpc[h] = "fprintf"
    /\ hostsFile' = WriteAt0(hostsFile, saveHosts)
    /\ tpc' = [tpc EXCEPT ![h] = "log"]
    /\ UNCHANGED <<inputVars, succFile, ioVars, mainVars, tcert, tlocal, tb,
                   terr, tried, closeVars, sigVars, saveHosts, hosts, code>>

\* The call of log moved after out <-: the goroutine goes to its send
\* without having appended the audit line.
TaskLogAfterSend(h) ==
    /\ Running
    /\ tpc[h] = "log"
    /\ tpc' = [tpc EXCEPT ![h] = "sendout"]
    /\ UNCHANGED <<inputVars, fileVars, ioVars, mainVars, tcert, tlocal, tb,
                   terr, tried, closeVars, sigVars, saveHosts, hosts, code>>

\* Line 223 and log, lines 296-313: the audit line is appended to succ.txt.
TaskLog(h) ==
    /\ Running
    /\ tpc[h] = "log"
    /\ succFile' = succFile \o AuditLine(h, certs[tcert[h]], tb[h])
    /\ tpc' = [tpc EXCEPT ![h] = "sendout"]
    /\ UNCHANGED <<inputVars, hostsFile, ioVars, mainVars, tcert, tlocal, tb,
                   terr, tried, closeVars, sigVars, saveHosts, hosts, code>>

\* Lines 298-301: succ.txt cannot be opened; log prints the error and
\* returns, and the goroutine goes on.
TaskLogFails(h) ==
    /\ Running
    /\ tpc[h] = "log"
    /\ stdout' = stdout \o <<"o", "p", "e", "n", " ", "s", "u", "c", "c", ".", "t", "x", "t", ":", " ", "e", "r", "r", "o", "r", "\n">>
    /\ tpc' = [tpc EXCEPT ![h] = "sendout"]
    /\ UNCHANGED <<inputVars, fileVars, stderr, mainVars, tcert, tlocal, tb,
                   terr, tried, closeVars, sigVars, saveHosts, hosts, code>>

\* Line 204 finds no credential left: the goroutine returns and the
\* deferred wg.Done() runs, line 203.
TaskDone(h) ==
    /\ Running
    /\ tpc[h] = "loop"
    /\ tcert[h] > Len(certs)
    /\ tpc' = [tpc EXCEPT ![h] = "done"]
    /\ UNCHANGED <<inputVars, fileVars, ioVars, mainVars, tcert, tlocal, tb,
                   terr, tried, closeVars, sigVars, saveHosts, hosts, code>>

(***************************************************************************)
(* The aggregation loop of main, lines 253-293.  errs and out are          *)
(* unbuffered: a receive is a rendezvous with a goroutine blocked in its   *)
(* send, after which both go on.  select takes any case that is ready.     *)
(* A receive and the lines that handle the received value are one step:    *)
(* the handling reads and writes nothing a goroutine reads, but code.      *)
(* Each of errs = nil and out = nil ends the loop at its next test, so the *)
(* three cases that set one of them end with os.Exit(code), line 293.      *)
(***************************************************************************)
\* Lines 282-289: every byte up to and including a "\n" is a line, written
\* to stdout after two spaces; bytes after the last "\n" are not written.
RECURSIVE IndentLines(_, _)
IndentLines(bytes, line) ==
    IF bytes = <<>> THEN <<>>
    ELSE IF Head(bytes) = NL
    THEN <<" ", " ">> \o line \o <<NL>> \o IndentLines(Tail(bytes), <<>>)
    ELSE IndentLines(Tail(bytes), Append(line, Head(bytes)))

\* case <-c.Done(), lines 255-259: out = nil ends the loop, and line 293
\* exits with the code as it is then.
SelectDone ==
    /\ mainpc = "select"
    /\ cancelled
    /\ stderr' = stderr \o argv0 \o <<":", " ">> \o ctxErr \o <<NL>>
    /\ mainpc' = "exited"
    /\ exitCode' = code
    /\ UNCHANGED <<inputVars, fileVars, stdout, received, taskVars, closeVars,
                   sigVars, saveHosts, hosts, code>>

\* case err, ok := <-errs with a goroutine blocked in errs <- err (line
\* 207), and lines 266-269.
SelectErr(h) ==
    /\ mainpc = "select"
    /\ tpc[h] = "senderr"
    /\ received' = Append(received, [kind |-> "err", host |-> h,
                                     cert |-> tcert[h], val |-> terr[h]])
    /\ tpc' = [tpc EXCEPT ![h] = AfterFailure(h).pc]
    /\ tcert' = [tcert EXCEPT ![h] = AfterFailure(h).cert]
    /\ code' = 1
    /\ stderr' = stderr \o argv0 \o <<":", " ">> \o terr[h] \o <<NL>>
    /\ UNCHANGED <<inputVars, fileVars, stdout, mainpc, exitCode, tlocal, tb,
                   terr, tried, closeVars, sigVars, saveHosts, hosts>>

\* case err, ok := <-errs on the closed channel, lines 261-264: errs = nil
\* ends the loop, and line 293 exits.
SelectErrClosed ==
    /\ mainpc = "select"
    /\ errsClosed
    /\ mainpc' = "exited"
    /\ exitCode' = code
    /\ UNCHANGED <<inputVars, fileVars, ioVars, received, taskVars, closeVars,
                   sigVars, saveHosts, hosts, code>>

\* case p, ok := <-out with a goroutine blocked in out <- ... (line 224),
\* and lines 276-289.
SelectOut(h) ==
    /\ mainpc = "select"
    /\ tpc[h] = "sendout"
    /\ received' = Append(received, [kind |-> "out", host |-> h,
                                     cert |-> tcert[h],
                                     val |-> OutMessage(h, tb[h])])
    /\ tpc' = [tpc EXCEPT ![h] = AfterSuccess(h).pc]
    /\ tcert' = [tcert EXCEPT ![h] = AfterSuccess(h).cert]
    /\ LET p == OutMessage(h, tb[h])
           i == Index(p, <<NL>>)
       IN /\ stderr' = stderr \o SubSeq(p, 1, i - 1)
          /\ stdout' = stdout \o IndentLines(SubSeq(p, i, Len(p)), <<>>)
    /\ UNCHANGED <<inputVars, fileVars, mainpc, exitCode, tlocal, tb, terr,
                   tried, closeVars, sigVars, saveHosts, hosts, code>>

\* case p, ok := <-out on the closed channel, lines 271-274: out = nil ends
\* the loop, and line 293 exits.
SelectOutClosed ==
    /\ mainpc = "select"
    /\ outClosed
    /\ mainpc' = "exited"
    /\ exitCode' = code
    /\ UNCHANGED <<inputVars, fileVars, ioVars, received, taskVars, closeVars,
                   sigVars, saveHosts, hosts, code>>

(***************************************************************************)
(* The closing goroutine, lines 246-251.                                   *)
(***************************************************************************)
\* wg.Wait() returns when every host goroutine has run wg.Done(); close(errs).
CloseErrs ==
    /\ Running
    /\ closerpc = "wait"
    /\ \A h \in Tasks : Finished(h)
    /\ errsClosed' = TRUE
    /\ closerpc' = "closeOut"
    /\ UNCHANGED <<inputVars, fileVars, ioVars, mainVars, taskVars, outClosed,
                   sigVars, saveHosts, hosts, code>>

\* close(out).
CloseOut ==
    /\ Running
    /\ closerpc = "closeOut"
    /\ outClosed' = TRUE
    /\ closerpc' = "done"
    /\ UNCHANGED <<inputVars, fileVars, ioVars, mainVars, taskVars, errsClosed,
                   sigVars, saveHosts, hosts, code>>

(***************************************************************************)
(* The signal goroutine, lines 240-244, and the signals of the             *)
(* environment.  sigs is unbuffered and package signal never blocks on it: *)
(* a signal that arrives while the goroutine is not blocked in <-sigs is   *)
(* dropped and changes nothing, so the only signal that is a step of the   *)
(* model is the one the goroutine receives.  Only SIGINT arrives: SIGKILL  *)
(* cannot be caught.  Signals are modelled from signal.Notify (line 236)   *)
(* on.                                                                     *)
(***************************************************************************)
\* A SIGINT is delivered and handed to the goroutine.
SignalReceived ==
    /\ Running
    /\ sigpc = "recv"
    /\ sigpc' = "cancel"
    /\ UNCHANGED <<inputVars, fileVars, ioVars, mainVars, taskVars, closeVars,
                   cancelled, saveHosts, hosts, code>>

\* cancel(), line 242.
SigCancel ==
    /\ Running
    /\ sigpc = "cancel"
    /\ cancelled' = TRUE
    /\ sigpc' = "setcode"
    /\ UNCHANGED <<inputVars, fileVars, ioVars, mainVars, taskVars, closeVars,
                   saveHosts, hosts, code>>

\* code = codes[sig], line 243.
SigSetCode ==
    /\ Running
    /\ sigpc = "setcode"
    /\ code' = codes[SIGINT]
    /\ sigpc' = "done"
    /\ UNCHANGED <<inputVars, fileVars, ioVars, mainVars, taskVars, closeVars,
                   cancelled, saveHosts, hosts>>

(***************************************************************************)
(* The specification.                                                      *)
(***************************************************************************)
Next ==
    \/ StartPanic
    \/ StartUnknown
    \/ StartSpawn
    \/ \E h \in Tasks : TaskStartAttempt(h)
    \/ \E h \in Tasks : TaskAttemptReturns(h)
    \/ \E h \in Tasks : TaskRead1(h)
    \/ \E h \in Tasks : TaskWrite1(h)
    \/ \E h \in Tasks : TaskRead2(h)
    \/ \E h \in Tasks : TaskWrite2(h)
    \/ \E h \in Tasks : TaskOpen(h)
    \/ \E h \in Tasks : TaskOpenFails(h)
    \/ \E h \in Tasks : TaskFprintf(h)
    \/ \E h \in Tasks : TaskLog(h)
    \/ \E h \in Tasks : TaskLogFails(h)
    \/ \E h \in Tasks : TaskDone(h)
    \/ \E h \in Tasks : SelectErr(h)
    \/ \E h \in Tasks : SelectOut(h)
    \/ SelectDone
    \/ SelectErrClosed
    \/ SelectOutClosed
    \/ CloseErrs
    \/ CloseOut
    \/ SignalReceived
    \/ SigCancel
    \/ SigSetCode

Spec == Init /\ [][Next]_vars

(***************************************************************************)
(* Definitions the properties share.                                       *)
(***************************************************************************)
\* The messages main has received from host goroutine h, in order.
RECURSIVE FromHost(_, _)
FromHost(ms, h) ==
    IF ms = <<>> THEN <<>>
    ELSE (IF Head(ms).host = h THEN <<Head(ms)>> ELSE <<>>) \o FromHost(Tail(ms), h)

\* An attempt of h has returned without error: some credential works.
Succeeded(h) == \E k \in 1..Len(tried[h]) : tried[h][k].kind # "err"

\* Every credential has been attempted for h and none worked.
Exhausted(h) ==
    /\ Len(tried[h]) = Len(certs)
    /\ \A k \in 1..Len(tried[h]) : tried[h][k].kind = "err"

\* An interrupt has been handed to the signal goroutine (while the
\* aggregation loop was running: SignalReceived is a step of a running process).
Interrupted == sigpc \in {"cancel", "setcode", "done"}
NoSignal == ~Interrupted

\* A host goroutine has returned at line 218 (os.OpenFile failed).
OpenFailed == \E h \in Tasks : tpc[h] = "returned"

\* The goroutine of h has succeeded and is past its rewrite of the hosts
\* file, lines 211-221.
Rewrote(h) == Succeeded(h) /\ tpc[h] \in {"log", "sendout", "done"}

\* The numbers of the lines of text that are host lines of cluster name, in
\* order: the k-th is the line of the k-th record of unmarshal(text).m[name].
RECURSIVE ClusterLines(_, _, _, _)
ClusterLines(ls, n, curr, name) ==
    IF ls = <<>> THEN <<>>
    ELSE LET line == TrimSpace(Head(ls)) IN
         IF line = <<>> THEN ClusterLines(Tail(ls), n + 1, curr, name)
         ELSE IF IsHeader(line)
         THEN ClusterLines(Tail(ls), n + 1, SubSeq(line, 1, Len(line) - 1), name)
         ELSE (IF curr = name THEN <<n>> ELSE <<>>)
              \o ClusterLines(Tail(ls), n + 1, curr, name)

\* The number of the line of the hosts file that host goroutine h stands for.
LineOf(h) == ClusterLines(ScanLines(inventory), 1, <<>>, arg)[h]

\* The lines ls without those whose numbers are in S.
RECURSIVE DropLines(_, _, _)
DropLines(ls, n, S) ==
    IF ls = <<>> THEN <<>>
    ELSE (IF n \in S THEN <<>> ELSE <<Head(ls)>>) \o DropLines(Tail(ls), n + 1, S)

\* The inventory without the lines of the host goroutines in H.
InventoryWithout(H) ==
    JoinLines(DropLines(ScanLines(inventory), 1, {LineOf(h) : h \in H}))

(***************************************************************************)
(* C1.  In a run without cancellation (and without a failure of            *)
(* os.OpenFile), with at least one credential, a host goroutine sends      *)
(* exactly one message in total on out and errs: never more than one, and, *)
(* once it has ended, one Success if some credential worked and otherwise  *)
(* one Failure carrying the error of the last credential.                  *)
(***************************************************************************)
C1_OneOutcomePerHost ==
    (NoSignal /\ ~OpenFailed /\ Len(certs) >= 1) =>
        \A h \in Tasks :
            LET sent == FromHost(received, h) IN
            /\ Len(sent) <= 1
            /\ Finished(h) =>
                /\ Len(sent) = 1
                /\ Succeeded(h) => sent[1].kind = "out"
                /\ ~Succeeded(h) =>
                    /\ sent[1].kind = "err"
                    /\ sent[1].val = ErrOf(h, Len(certs))

(***************************************************************************)
(* C2.  A host goroutine attempts the credentials one at a time in catalog *)
(* order (its k-th attempt is with credential k), starts no attempt after  *)
(* an attempt that worked, gives up only when every credential has failed, *)
(* and the Success it sends names the lowest-index working credential i,   *)
(* after exactly i attempts.                                               *)
(***************************************************************************)
C2_CredentialOrder ==
    \A h \in Tasks :
        /\ \A k \in 1..Len(tried[h]) : tried[h][k].cert = k
        /\ \A k \in 1..(Len(tried[h]) - 1) : tried[h][k].kind = "err"
        /\ tpc[h] = "run" => tcert[h] = Len(tried[h]) + 1 /\ ~Succeeded(h)
        /\ tpc[h] = "loop" => ~Succeeded(h)
        /\ tpc[h] = "done" /\ ~Succeeded(h) => Exhausted(h)
        /\ tpc[h] = "returned" => Succeeded(h)
        /\ \A k \in 1..Len(received) :
            (received[k].host = h /\ received[k].kind = "out") =>
                /\ Succeeded(h)
                /\ received[k].cert = Len(tried[h])
                /\ tpc[h] = "done"

\* A host whose first credential failed and whose second worked has
\* delivered its Success.
C2_Witness ==
    \E h \in Tasks :
        /\ Len(tried[h]) = 2
        /\ tried[h][1].kind = "err"
        /\ tried[h][2].kind = "ok"
        /\ \E k \in 1..Len(received) :
            received[k].host = h /\ received[k].kind = "out" /\ received[k].cert = 2

(***************************************************************************)
(* C3.  When no signal arrives (and os.OpenFile does not fail) and every    *)
(* host of the cluster succeeds with some credential, main has received no *)
(* Failure and the process exits with 0; a run that started its host       *)
(* goroutines exits with 1 only if some host exhausted all its credentials.*)
(***************************************************************************)
C3_EarlierErrorsNotSurfaced ==
    (mainpc = "exited" /\ Tasks # {} /\ NoSignal /\ ~OpenFailed) =>
        /\ (\A h \in Tasks : Succeeded(h)) =>
            /\ \A k \in 1..Len(received) : received[k].kind # "err"
            /\ exitCode = 0
        /\ exitCode = 1 => \E h \in Tasks : Exhausted(h)

(***************************************************************************)
(* C4.  When an interrupt has been handed to the signal goroutine while    *)
(* the aggregation loop was running, the process exits with 130.           *)
(***************************************************************************)
C4_InterruptExits130 ==
    (mainpc = "exited" /\ Interrupted) => exitCode = 130

(***************************************************************************)
(* C5.  When two or more host goroutines have succeeded and each has       *)
(* finished its rewrite of the hosts file, the file is the inventory       *)
(* without the lines of exactly those hosts, under every interleaving of   *)
(* their steps (read saveHosts, store it, truncate the file, write it).    *)
(***************************************************************************)
C5_ConcurrentRetirement ==
    (Cardinality(Tasks) >= 2 /\ \A h \in Tasks : Rewrote(h)) =>
        hostsFile = InventoryWithout(Tasks)

(***************************************************************************)
(* C6.  After the only host goroutine of a run has succeeded and rewritten *)
(* the hosts file, the line of its host is no longer in the file, however  *)
(* the line is spelled, and the next invocation on the same cluster finds  *)
(* no record of that host.                                                 *)
(***************************************************************************)
C6_SucceededHostRetired ==
    \A h \in Tasks :
        (Cardinality(Tasks) = 1 /\ Rewrote(h)) =>
            /\ hostsFile = InventoryWithout({h})
            /\ LET next == ClusterLookup(unmarshal(hostsFile).m, arg) IN
               \A k \in 1..Len(next.hosts) : next.hosts[k] # hosts[h]

(***************************************************************************)
(* C7.  After the only host goroutine of a run has rewritten the hosts     *)
(* file, every line of the inventory other than the line of its host is in *)
(* the file unchanged and in its place: the file is the inventory, with or *)
(* without that one line.                                                  *)
(***************************************************************************)
C7_OtherLinesUnchanged ==
    \A h \in Tasks :
        (Cardinality(Tasks) = 1 /\ Rewrote(h)) =>
            hostsFile \in {InventoryWithout({h}), InventoryWithout({})}

(***************************************************************************)
(* C8.  When the requested cluster is not a key of the parsed inventory,   *)
(* the process exits with 1 at the lookup: no host goroutine, no signal or *)
(* closing goroutine is started, no attempt is made, and the hosts file,   *)
(* succ.txt and stdout are left as they were.                              *)
(***************************************************************************)
C8_UnknownCluster ==
    (/\ mainpc # "start"
     /\ ~Parsed[inventory].panic
     /\ arg \notin DOMAIN Parsed[inventory].m) =>
        /\ mainpc = "exited"
        /\ exitCode = 1
        /\ Tasks = {}
        /\ sigpc = "none"
        /\ closerpc = "none"
        /\ received = <<>>
        /\ hostsFile = inventory
        /\ succFile = <<>>
        /\ stdout = <<>>

\* The run on the two-host inventory with a cluster name it does not hold
\* has exited with 1.
C8_Witness ==
    /\ inventory = TwoHostInventory
    /\ arg = <<"x">>
    /\ mainpc = "exited"
    /\ exitCode = 1
    /\ stderr = argv0 \o <<":", " ", "u", "n", "k", "n", "o", "w", "n", " ", "c", "l", "u", "s", "t", "e", "r", "\n">>

(***************************************************************************)
(* C9.  Once code holds the signal code it is not overwritten: no step     *)
(* takes code from 130 to another value.                                   *)
(***************************************************************************)
C9_SignalCodeKept ==
    [][code = codes[SIGINT] => code' = codes[SIGINT]]_vars

(***************************************************************************)
(* C10.  After cancel() has been called no host goroutine starts a         *)
(* credential attempt.                                                     *)
(***************************************************************************)
C10_NoAttemptAfterCancel ==
    [][cancelled =>
        \A h \in Tasks : tpc'[h] = "run" => tpc[h] = "run"]_vars

(***************************************************************************)
(* Definitions the properties of the end of a run share.                   *)
(***************************************************************************)
\* The process has exited from the aggregation loop (line 293): its
\* goroutines had been started.
ExitedFromLoop == mainpc = "exited" /\ closerpc # "none"

\* The messages of kind k main has received from host goroutine h.
Consumed(h, k) ==
    {n \in 1..Len(received) : received[n].host = h /\ received[n].kind = k}

\* log has failed to open succ.txt (line 299 has printed the error).
LogFailed == Contains(stdout, <<"o", "p", "e", "n", " ", "s", "u", "c", "c", ".", "t", "x", "t">>)

(***************************************************************************)
(* C11.  After cancel() has been called the process does not exit while a  *)
(* credential attempt is in flight: when the process has exited from the   *)
(* aggregation loop, no host goroutine is inside a call of run.            *)
(***************************************************************************)
C11_NoExitDuringAttempt ==
    (ExitedFromLoop /\ cancelled) => \A h \in Tasks : tpc[h] # "run"

(***************************************************************************)
(* C12.  When certs/ yields no credential and the cluster has at least one *)
(* host, the run is not aborted (the goroutines are started and the loop   *)
(* entered), and, without a signal, when the process has exited main has   *)
(* received a Failure from every host and the exit code is 1.              *)
(***************************************************************************)
C12_EmptyCatalogFails ==
    (/\ mainpc # "start"
     /\ ~Parsed[inventory].panic
     /\ arg \in DOMAIN Parsed[inventory].m
     /\ Len(certs) = 0) =>
        /\ closerpc # "none"
        /\ Tasks # {}
        /\ (mainpc = "exited" /\ NoSignal) =>
            /\ \A h \in Tasks : Consumed(h, "err") # {}
            /\ exitCode = 1

(***************************************************************************)
(* C13.  When os.OpenFile of the hosts file has failed for a host whose    *)
(* command had run, the host still completes as a success: without a       *)
(* signal, when the process has exited, the audit line of the host is in   *)
(* succ.txt (unless succ.txt could not be opened), main has received its   *)
(* Success, and the failure has not set the exit code to 1 (the code is 1  *)
(* only if main has received a Failure).                                   *)
(***************************************************************************)
C13_RewriteFailureStillSucceeds ==
    (ExitedFromLoop /\ NoSignal) =>
        \A h \in Tasks :
            tpc[h] = "returned" =>
                /\ LogFailed \/ Contains(succFile, AuditLine(h, certs[tcert[h]], tb[h]))
                /\ Consumed(h, "out") # {}
                /\ exitCode = 1 =>
                    \E n \in 1..Len(received) : received[n].kind = "err"

(***************************************************************************)
(* C14.  When main consumes the Success of a host, it writes to stdout     *)
(* every line of the remote output b, in order, each after two spaces,     *)
(* with the line boundaries of b (a last line without "\n" included, and   *)
(* nothing for an empty b), and nothing else; the label "Host: addr" goes  *)
(* to stderr only.                                                         *)
(***************************************************************************)
\* The bytes of b with two spaces put before each of its lines.
RECURSIVE PrefixLines(_)
PrefixLines(b) ==
    LET i == Index(b, <<NL>>) IN
    IF b = <<>> THEN <<>>
    ELSE IF i = 0 THEN <<" ", " ">> \o b
    ELSE <<" ", " ">> \o SubSeq(b, 1, i) \o PrefixLines(SubSeq(b, i + 1, Len(b)))

C14_OutputLinesIndented ==
    [][\A h \in Tasks :
        (tpc[h] = "sendout" /\ tpc'[h] = "done") =>
            /\ stdout' = stdout \o PrefixLines(tb[h])
            /\ stderr' = stderr \o <<"H", "o", "s", "t", ":", " ">> \o hosts[h].addr]_vars

(***************************************************************************)
(* C15.  Every header line of the inventory names a cluster of the parsed  *)
(* inventory, also when no host line follows it, and the records of each   *)
(* cluster (of the unnamed cluster "" for the lines before any header) are *)
(* the records of the host lines between its header and the next, in       *)
(* order of appearance: no host line is dropped or put in two clusters.    *)
(***************************************************************************)
\* The names of the header lines of the lines ls.
HeaderNames(ls) ==
    {SubSeq(TrimSpace(ls[n]), 1, Len(TrimSpace(ls[n])) - 1) :
        n \in {k \in 1..Len(ls) : IsHeader(TrimSpace(ls[k]))}}

\* The number of host lines among the lines ls.
HostLineCount(ls) ==
    Cardinality({n \in 1..Len(ls) :
                    TrimSpace(ls[n]) # <<>> /\ ~IsHeader(TrimSpace(ls[n]))})

\* Sum over the clusters D of m of the number of their records.
RECURSIVE RecordCount(_, _)
RecordCount(m, D) ==
    IF D = {} THEN 0
    ELSE LET n == CHOOSE x \in D : TRUE IN Len(m[n]) + RecordCount(m, D \ {n})

C15_HostLinesAssigned ==
    (mainpc # "start" /\ ~Parsed[inventory].panic) =>
        LET ls == ScanLines(inventory)
            m  == Parsed[inventory].m
        IN /\ HeaderNames(ls) \subseteq DOMAIN m
           /\ \A name \in DOMAIN m :
                LET at == ClusterLines(ls, 1, <<>>, name) IN
                /\ Len(m[name]) = Len(at)
                /\ \A k \in 1..Len(at) : m[name][k] = ParseHost(TrimSpace(ls[at[k]]))
           /\ RecordCount(m, DOMAIN m) = HostLineCount(ls)

(***************************************************************************)
(* C16.  An attempt in which the command ran and exited non-zero counts as *)
(* a success.  The goroutine makes no further attempt and sends no Failure *)
(* for it; and once main has consumed its Success (in a run of one host,   *)
(* in which os.OpenFile and log have not failed), the line of the host is  *)
(* gone from the hosts file, its audit line is in succ.txt, the Success    *)
(* carries the output of the command, and the exit code is 1 only if main  *)
(* has received a Failure.                                                 *)
(***************************************************************************)
\* The last attempt of h has returned from a command that exited non-zero.
ExitedNonZero(h) ==
    tried[h] # <<>> /\ tried[h][Len(tried[h])].kind = "exit"

C16_NonZeroExitIsSuccess ==
    \A h \in Tasks :
        ExitedNonZero(h) =>
            /\ tpc[h] \notin {"loop", "run", "senderr"}
            /\ \A n \in Consumed(h, "err") : received[n].cert # Len(tried[h])
            /\ (/\ tpc[h] = "done"
                /\ Cardinality(Tasks) = 1
                /\ ~LogFailed) =>
                    /\ hostsFile = InventoryWithout({h})
                    /\ Contains(succFile, AuditLine(h, certs[tcert[h]], tb[h]))
                    /\ \E n \in Consumed(h, "out") :
                        received[n].val = OutMessage(h, <<"x">>)
                    /\ (mainpc = "exited" /\ exitCode = 1) =>
                        \E n \in 1..Len(received) : received[n].kind = "err"

(***************************************************************************)
(* The specification with the scheduling that termination rests on: the   *)
(* process does not stop while one of its goroutines can take a step       *)
(* (every call of run returns, a blocked send is received by a select that *)
(* waits for it).  No signal is ever required to arrive.                   *)
(***************************************************************************)
\* A step of the program: any step but the arrival of a signal.
ProgramStep == Next /\ ~(sigpc = "recv" /\ sigpc' = "cancel")

FairSpec == Spec /\ WF_vars(ProgramStep)

\* The number of attempts of h that have returned an error.
FailedAttempts(h) ==
    Cardinality({k \in 1..Len(tried[h]) : tried[h][k].kind = "err"})

\* When the process has exited from the loop without a signal, no host
\* goroutine is blocked in a send or anywhere before its end, and main has
\* received each message a goroutine had to send exactly once: the error of
\* every failed attempt, in order, and the Success of every host that
\* reached line 224.
AllConsumedAtExit ==
    (ExitedFromLoop /\ NoSignal) =>
        \A h \in Tasks :
            LET sent == FromHost(received, h) IN
            /\ tpc[h] \in {"done", "returned"}
            /\ Len(sent) = FailedAttempts(h)
                           + (IF Succeeded(h) /\ tpc[h] = "done" THEN 1 ELSE 0)
            /\ \A k \in 1..FailedAttempts(h) :
                sent[k] = [kind |-> "err", host |-> h, cert |-> k,
                           val |-> ErrOf(h, k)]
            /\ (Succeeded(h) /\ tpc[h] = "done") =>
                sent[Len(sent)] = [kind |-> "out", host |-> h,
                                   cert |-> Len(tried[h]),
                                   val |-> OutMessage(h, tb[h])]

(***************************************************************************)
(* C17.  In a run in which no signal arrives and every attempt returns,    *)
(* whatever the number of hosts and of credentials, the process eventually *)
(* exits; and when it has exited every message a host goroutine sent on    *)
(* errs or out has been consumed exactly once and no goroutine is left     *)
(* blocked in a send.                                                      *)
(***************************************************************************)
C17_TerminatesAllConsumed ==
    /\ []AllConsumedAtExit
    /\ <>(Interrupted \/ mainpc = "exited")

\* A run of two hosts and two credentials has ended without a signal, after
\* main has consumed a Failure and a Success of each host.
C17_Witness ==
    /\ ExitedFromLoop
    /\ NoSignal
    /\ Cardinality(Tasks) = 2
    /\ \A h \in Tasks : Consumed(h, "err") # {} /\ Consumed(h, "out") # {}

(***************************************************************************)
(* C18.  Once cancel() has been called the aggregation loop consumes no    *)
(* further Success or Failure: no step after it adds a message to those    *)
(* main has received.                                                      *)
(***************************************************************************)
C18_NoConsumptionAfterCancel ==
    [][cancelled => received' = received]_vars

(***************************************************************************)
(* C19.  The output of different hosts never shares a line.  What main     *)
(* writes for one message is complete before it handles the next, and it   *)
(* is made of whole lines: no line of stderr holds the label or the error  *)
(* of two different hosts, and every write to stdout ends its line, so     *)
(* that the next write starts a new one.                                   *)
(***************************************************************************)
\* The line l holds a diagnostic of host goroutine h: its label or the
\* error of one of its attempts.
MentionsHost(l, h) ==
    \/ Contains(l, <<"H", "o", "s", "t", ":", " ">> \o hosts[h].addr)
    \/ \E i \in 1..Len(certs) : Contains(l, ErrOf(h, i))

C19_NoSharedLine ==
    /\ \A n \in 1..Len(Split(stderr, <<NL>>)) :
        \A h1, h2 \in Tasks :
            (/\ MentionsHost(Split(stderr, <<NL>>)[n], h1)
             /\ MentionsHost(Split(stderr, <<NL>>)[n], h2)) => h1 = h2
    /\ stdout = <<>> \/ stdout[Len(stdout)] = NL

(***************************************************************************)
(* C20.  A host goroutine performs its success side effects before its     *)
(* Success is delivered: when main has consumed the Success of a host, the *)
(* goroutine has rewritten the hosts file (in a run of one host the file   *)
(* holds saveHosts after the two replacements of lines 212-213) and log    *)
(* has appended the audit line of the host to succ.txt (or has printed     *)
(* that succ.txt could not be opened).  The converse does not hold: the    *)
(* process can exit on cancellation with a host rewritten and audit-logged *)
(* whose Success main never consumed (C20_Witness).                        *)
(***************************************************************************)
\* saveHosts after lines 212-213 of host goroutine h, when no other
\* goroutine has changed it.
RewrittenBy(h) ==
    Replace(Replace(SavedHosts[inventory], outlog(h) \o <<NL>>, <<>>, -1),
            outlog(h), <<>>, -1)

\* The audit line of h, with the credential and the output of its last attempt.
AuditLogged(h) ==
    Contains(succFile, AuditLine(h, certs[Len(tried[h])], tb[h]))

C20_SideEffectsBeforeSuccess ==
    \A h \in Tasks :
        Consumed(h, "out") # {} =>
            /\ tpc[h] = "done"
            /\ LogFailed \/ AuditLogged(h)
            /\ Cardinality(Tasks) = 1 => hostsFile = RewrittenBy(h)

\* The process has exited on cancellation after main consumed the Success
\* of one host, whose line is gone from the file and whose audit line is in
\* succ.txt, while another host, audit-logged too, is left blocked in its
\* send: its Success is never consumed.
C20_Witness ==
    /\ ExitedFromLoop
    /\ cancelled
    /\ \E h1, h2 \in Tasks :
        /\ Consumed(h1, "out") # {}
        /\ AuditLogged(h1)
        /\ tpc[h2] = "sendout"
        /\ AuditLogged(h2)
        /\ Consumed(h2, "out") = {}
        /\ hostsFile = InventoryWithout({h1, h2})

=============================================================================
